---------------------------- MODULE Spec2Model ----------------------------
(***************************************************************************)
(* Model of internal/manager/generator_interactive_heatmap_speed.go:       *)
(* InteractiveHeatmapSpeedGenerator.Generate and the functions it calls    *)
(* (LoadFunscriptData, UpdateIntensityAndSpeed, getGradientTable,          *)
(* RenderHeatmap, CalculateMedian) and the exported GradientTable queries. *)
(*                                                                         *)
(* float64 values are modelled as exact rationals [n, d] in lowest terms,  *)
(* with d = 0 for the non-finite values: [n |-> 0, d |-> 0] is NaN and     *)
(* [n |-> 1, d |-> 0] is +Inf.                                             *)
(***************************************************************************)
EXTENDS Integers, Sequences, FiniteSets

\* ------------------------------------------------------------ bounds
\* Longest raw action list read from the funscript file.
MaxLen == 3
\* NumSegments ranges over 1..MaxSegments (the constructor's default is 600).
MaxSegments == 3
\* The image width in pixels (the constructor's default is 1280).
Width == 4

\* Timestamps and positions the raw actions are drawn from.
Times == {-1, 0, 10, 800, 1600}
Positions == {0, 100}
\* Scene durations in milliseconds.
Durations == {1600, 2000}

\* ------------------------------------------------- program constants
Height == 60
windowSize == 15
backfillThreshold == 500
tick == 600000
stepSize == 60

\* ------------------------------------------------------------ float64
Abs(x) == IF x < 0 THEN -x ELSE x

RECURSIVE GCD(_, _)
GCD(a, b) == IF b = 0 THEN a ELSE GCD(b, a % b)

NaN == [n |-> 0, d |-> 0]

\* The float n/d; x/0 is +Inf for x > 0 and NaN for x = 0 (IEEE 754).
Rat(n, d) ==
    IF d = 0 THEN (IF n = 0 THEN NaN ELSE [n |-> (IF n > 0 THEN 1 ELSE -1), d |-> 0])
    ELSE LET s == IF d < 0 THEN -1 ELSE 1
             g == GCD(Abs(n), Abs(d))
         IN  [n |-> (s * n) \div g, d |-> (s * d) \div g]

FromInt(i) == [n |-> i, d |-> 1]
IsNaN(a) == a.d = 0 /\ a.n = 0
IsFinite(a) == a.d # 0

\* a < b and a <= b on floats: every comparison with NaN is false.
RLt(a, b) ==
    /\ ~IsNaN(a) /\ ~IsNaN(b)
    /\ IF a.d = 0 /\ b.d = 0 THEN a.n < b.n
       ELSE IF a.d = 0 THEN a.n < 0
       ELSE IF b.d = 0 THEN b.n > 0
       ELSE a.n * b.d < b.n * a.d
RLe(a, b) ==
    /\ ~IsNaN(a) /\ ~IsNaN(b)
    /\ (a = b \/ RLt(a, b))

\* Arithmetic, used on finite operands only except where noted.
RAdd(a, b) ==
    IF IsNaN(a) \/ IsNaN(b) THEN NaN
    ELSE IF a.d = 0 /\ b.d = 0 THEN (IF a.n = b.n THEN a ELSE NaN)
    ELSE IF a.d = 0 THEN a
    ELSE IF b.d = 0 THEN b
    ELSE Rat(a.n * b.d + b.n * a.d, a.d * b.d)
RSub(a, b) == RAdd(a, [n |-> -b.n, d |-> b.d])
RDivInt(a, k) == IF a.d = 0 THEN a ELSE Rat(a.n, a.d * k)
RDiv(a, b) ==
    IF ~IsFinite(a) \/ ~IsFinite(b) THEN NaN
    ELSE Rat(a.n * b.d, a.d * b.n)

\* int(x) of a finite float: truncation toward zero.
Trunc(a) == IF a.n >= 0 THEN a.n \div a.d ELSE -((-a.n) \div a.d)

\* -------------------------------------------------------- variables
VARIABLES
    file,               \* what os.ReadFile and json.Unmarshal make of FunscriptPath
    sceneDurationMilli, \* g.sceneDurationMilli
    NumSegments,        \* g.NumSegments
    pc,                 \* position of Generate
    err,                \* the error Generate returns ("" is nil)
    funscript,          \* the Script LoadFunscriptData returned (its Actions)
    Funscript,          \* g.Funscript.Actions
    InteractiveSpeed,   \* g.InteractiveSpeed
    binned,             \* getGradientTable's segments after the binning loop
    segments,           \* getGradientTable's segments after the backfill loop
    gradient,           \* the GradientTable
    heatmap,            \* the file at HeatmapPath
    query               \* the last GradientTable query a caller made

vars == <<file, sceneDurationMilli, NumSegments, pc, err, funscript, Funscript,
          InteractiveSpeed, binned, segments, gradient, heatmap, query>>

\* An Action as json.Unmarshal leaves it: the derived fields are zero.
Action(at, pos) ==
    [At |-> at, Pos |-> pos, Slope |-> FromInt(0), Intensity |-> 0, Speed |-> FromInt(0)]

RawActions == {Action(t, p) : t \in Times, p \in Positions}

RawLists == UNION {[1..k -> RawActions] : k \in 0..MaxLen}

\* The outcomes of reading and parsing the file.
Files ==
    {[kind |-> k, actions |-> <<>>] : k \in {"unreadable", "malformed", "missing"}}
    \cup {[kind |-> "ok", actions |-> a] : a \in RawLists}

\* ------------------------------------------------- LoadFunscriptData
\* sort.SliceStable by At: insertion of each element after its equals.
RECURSIVE InsertByAt(_, _)
InsertByAt(s, x) ==
    IF s = <<>> THEN <<x>>
    ELSE IF x.At < s[Len(s)].At THEN Append(InsertByAt(SubSeq(s, 1, Len(s) - 1), x), s[Len(s)])
    ELSE Append(s, x)

RECURSIVE SliceStableByAt(_)
SliceStableByAt(s) ==
    IF s = <<>> THEN <<>>
    ELSE InsertByAt(SliceStableByAt(SubSeq(s, 1, Len(s) - 1)), s[Len(s)])

\* isValid with the scene's end taken as valid (x <= in place of x <).
isValidLe(x, dur) == x >= 0 /\ x <= dur
isValid(x, dur) == x >= 0 /\ x < dur

\* The in-place compaction loop: k is the range index, i the write index.
RECURSIVE Compact(_, _, _, _)
Compact(a, k, i, dur) ==
    IF k > Len(a) THEN SubSeq(a, 1, i)
    ELSE IF isValid(a[k].At, dur) THEN Compact([a EXCEPT ![i + 1] = a[k]], k + 1, i + 1, dur)
    ELSE Compact(a, k + 1, i, dur)

LoadFunscriptData(actions, dur) == Compact(SliceStableByAt(actions), 1, 0, dur)

\* ------------------------------------------- UpdateIntensityAndSpeed
\* math.Min(math.Max(1/(2*float64(t1-t2)/1000), 0), 20)
Slope(dt) ==
    LET raw == Rat(1000, 2 * dt)
        lo  == IF RLt(raw, FromInt(0)) THEN FromInt(0) ELSE raw
    IN  IF RLt(FromInt(20), lo) THEN FromInt(20) ELSE lo

\* math.Abs(float64(p1-p2)) / float64(t1-t2) * 1000
Speed(dp, dt) == IF dt = 0 THEN Rat(Abs(dp), 0) ELSE Rat(Abs(dp) * 1000, dt)

UpdateIntensityAndSpeed(a) ==
    [i \in 1..Len(a) |->
        IF i = 1 THEN a[i]
        ELSE LET dt == a[i].At - a[i - 1].At
                 dp == a[i].Pos - a[i - 1].Pos
                 slope == Slope(dt)
             IN  [a[i] EXCEPT !.Slope = slope,
                              !.Intensity = Trunc(Rat(slope.n * Abs(dp), slope.d)),
                              !.Speed = Speed(dp, dt)]]

\* --------------------------------------------------- getGradientTable
\* sort.Ints
RECURSIVE InsertInt(_, _)
InsertInt(s, x) ==
    IF s = <<>> THEN <<x>>
    ELSE IF x < s[Len(s)] THEN Append(InsertInt(SubSeq(s, 1, Len(s) - 1), x), s[Len(s)])
    ELSE Append(s, x)

RECURSIVE SortInts(_)
SortInts(s) ==
    IF s = <<>> THEN <<>>
    ELSE InsertInt(SortInts(SubSeq(s, 1, Len(s) - 1)), s[Len(s)])

RECURSIVE Sum(_)
Sum(s) == IF s = <<>> THEN 0 ELSE s[Len(s)] + Sum(SubSeq(s, 1, Len(s) - 1))

\* posList = append(posList, a.Pos), dropping the oldest beyond windowSize.
PushPos(posList, pos) ==
    LET p == Append(posList, pos)
    IN  IF Len(p) > windowSize THEN SubSeq(p, 2, Len(p)) ELSE p

topHalf(sortedPos) == SubSeq(sortedPos, Len(sortedPos) \div 2 + 1, Len(sortedPos))
bottomHalf(sortedPos) == SubSeq(sortedPos, 1, Len(sortedPos) \div 2)

\* float64(total) / float64(len(half)): 0/0 is NaN for an empty half.
Average(half) == Rat(Sum(half), Len(half))

\* int(float64(a.At) / float64(maxts+1) * float64(numSegments)), clamped.
SegmentIndex(at, maxts, numSegments) ==
    LET segment == Trunc(Rat(at * numSegments, maxts + 1))
    IN  IF segment >= numSegments THEN numSegments - 1 ELSE segment

ZeroSegment == [count |-> 0, intensity |-> 0, yRange |-> <<FromInt(0), FromInt(0)>>, at |-> 0]

\* The five assignments to segments[segment] for action a.
\* Assign with the count overwritten like yRange and at, not accumulated.
AssignOverwriteCount(seg, a, averageTop, averageBottom) ==
    [count |-> 1,
     intensity |-> seg.intensity + a.Intensity,
     yRange |-> <<averageTop, averageBottom>>,
     at |-> a.At]
Assign(seg, a, averageTop, averageBottom) ==
    [count |-> seg.count + 1,
     intensity |-> seg.intensity + a.Intensity,
     yRange |-> <<averageTop, averageBottom>>,
     at |-> a.At]

\* The binning loop over funscript.Actions from index k on (segs is 1-based:
\* segs[i + 1] is segments[i]).
RECURSIVE BinLoop(_, _, _, _, _)
BinLoop(actions, k, posList, segs, numSegments) ==
    IF k > Len(actions) THEN segs
    ELSE LET a == actions[k]
             maxts == actions[Len(actions)].At
             window == PushPos(posList, a.Pos)
             sortedPos == SortInts(window)
             averageBottom == Average(bottomHalf(sortedPos))
             averageTop == Average(topHalf(sortedPos))
             segment == SegmentIndex(a.At, maxts, numSegments)
         IN  BinLoop(actions, k + 1, window,
                     [segs EXCEPT ![segment + 1] = Assign(@, a, averageTop, averageBottom)],
                     numSegments)

Binning(actions, numSegments) ==
    BinLoop(actions, 1, <<>>, [i \in 1..numSegments |-> ZeroSegment], numSegments)

\* int64(float64(i) / float64(numSegments))
SegmentTS(i, numSegments) == Trunc(Rat(i, numSegments))

\* The body of the backfill loop for an empty segments[i].
\* BackfillEmpty without the copy of yRange.
BackfillEmptyNoYRange(seg, lastSegment, i, numSegments) ==
    IF SegmentTS(i, numSegments) - lastSegment.at < backfillThreshold
    THEN [seg EXCEPT !.count = lastSegment.count,
                     !.intensity = lastSegment.intensity]
    ELSE seg
BackfillEmpty(seg, lastSegment, i, numSegments) ==
    IF SegmentTS(i, numSegments) - lastSegment.at < backfillThreshold
    THEN [seg EXCEPT !.count = lastSegment.count,
                     !.intensity = lastSegment.intensity,
                     !.yRange = lastSegment.yRange]
    ELSE seg

RECURSIVE BackfillLoop(_, _, _)
BackfillLoop(segs, i, lastSegment) ==
    IF i >= Len(segs) THEN segs
    ELSE IF segs[i + 1].count = 0
         THEN BackfillLoop([segs EXCEPT ![i + 1] = BackfillEmpty(@, lastSegment, i, Len(segs))],
                           i + 1, lastSegment)
         ELSE BackfillLoop(segs, i + 1, segs[i + 1])

Backfill(segs) == BackfillLoop(segs, 0, segs[1])

\* ---------------------------------------------------- getSegmentColor
\* A colour getSegmentColor returns: a palette colour, or the blend of two
\* palette colours at fraction f in a colour space. BlendLab and BlendRgb of
\* go-colorful give c1 at fraction 0 and c2 at fraction 1.
Named(name) == [space |-> "hex", c1 |-> name, c2 |-> name, f |-> FromInt(0)]
Blend(space, c1, c2, f) ==
    IF f = FromInt(0) THEN Named(c1)
    ELSE IF f = FromInt(1) THEN Named(c2)
    ELSE [space |-> space, c1 |-> c1, c2 |-> c2, f |-> f]

colorBlue == "#1e90ff"
colorGreen == "#228b22"
colorYellow == "#ffd700"
colorRed == "#dc143c"
colorPurple == "#800080"
colorBlack == "#0f001e"
colorBackground == "#30404d"

\* (intensity - k*stepSize) / (m*stepSize)
Fraction(intensity, k, m) == RDivInt(RSub(intensity, FromInt(k * stepSize)), m * stepSize)

getSegmentColor(intensity) ==
    IF RLe(intensity, Rat(1, 1000)) THEN Named(colorBackground)
    ELSE IF RLe(intensity, FromInt(1 * stepSize))
         THEN Blend("Lab", colorBlue, colorGreen, Fraction(intensity, 0, 1))
    ELSE IF RLe(intensity, FromInt(2 * stepSize))
         THEN Blend("Lab", colorGreen, colorYellow, Fraction(intensity, 1, 1))
    ELSE IF RLe(intensity, FromInt(3 * stepSize))
         THEN Blend("Lab", colorYellow, colorRed, Fraction(intensity, 2, 1))
    ELSE IF RLe(intensity, FromInt(4 * stepSize))
         THEN Blend("Rgb", colorRed, colorPurple, Fraction(intensity, 3, 1))
    ELSE LET f == Fraction(intensity, 4, 5)
         IN  Blend("Lab", colorPurple, colorBlack,
                   IF RLt(FromInt(1), f) THEN FromInt(1) ELSE f)

\* float64(i) / float64(numSegments-1): 0/0 is NaN when numSegments is 1.
\* StopPos dividing by numSegments in place of numSegments-1.
StopPosOverN(i, numSegments) == Rat(i, numSegments)
StopPos(i, numSegments) == Rat(i, numSegments - 1)

\* The loop that fills gradient[i] from segments[i].
Gradient(segs) ==
    [j \in 1..Len(segs) |->
        [Col |-> IF segs[j].count > 0
                 THEN getSegmentColor(Rat(segs[j].intensity, segs[j].count))
                 ELSE getSegmentColor(FromInt(0)),
         Pos |-> StopPos(j - 1, Len(segs)),
         YRange |-> segs[j].yRange]]

\* ------------------------------------------------ GradientTable queries
\* The enclosure test of both query loops.
Encloses(c1, c2, t) == RLe(c1.Pos, t) /\ RLe(t, c2.Pos)

\* The first i (0-based) from i on whose pair (gt[i], gt[i+1]) encloses t,
\* or -1 when the loop ends without one.
RECURSIVE FirstEnclosing(_, _, _)
FirstEnclosing(gt, t, i) ==
    IF i >= Len(gt) - 1 THEN -1
    ELSE IF Encloses(gt[i + 1], gt[i + 2], t) THEN i
    ELSE FirstEnclosing(gt, t, i + 1)

\* A colour a query returns: a stop's colour as it is, or the clamped HCL
\* blend of two stops' colours. BlendHcl gives c1 at fraction 0 and c2 at
\* fraction 1, and Clamped leaves a stop's colour, which is a displayable
\* colour, as it is.
Unblended(c) == [blend |-> "none", c1 |-> c, c2 |-> c, t |-> FromInt(0)]
BlendHclClamped(c1, c2, t) ==
    IF t = FromInt(0) THEN Unblended(c1)
    ELSE IF t = FromInt(1) THEN Unblended(c2)
    ELSE [blend |-> "HclClamped", c1 |-> c1, c2 |-> c2, t |-> t]

GetInterpolatedColorFor(gt, t) ==
    LET i == FirstEnclosing(gt, t, 0)
    IN  IF i >= 0
        THEN LET c1 == gt[i + 1]
                 c2 == gt[i + 2]
             IN  BlendHclClamped(c1.Col, c2.Col,
                                 RDiv(RSub(t, c1.Pos), RSub(c2.Pos, c1.Pos)))
        ELSE Unblended(gt[Len(gt)].Col)

GetYRange(gt, t) ==
    LET i == FirstEnclosing(gt, t, 0)
    IN  IF i >= 0 THEN gt[i + 1].YRange ELSE gt[Len(gt)].YRange

\* ------------------------------------------------------ RenderHeatmap
\* int(y / 100.0 * float64(g.Height)) for a finite y
ToRow(y) == Trunc(Rat(y.n * Height, y.d * 100))

\* g.Height - int(NaN / 100.0 * float64(g.Height)), as draw.Draw clips it to
\* the image. The conversion of a NaN is implementation-dependent: it is 0
\* on arm64, which gives row Height, and the minimum int64 on amd64, where
\* the subtraction wraps to a row far above the image, clipped to row 0.
NaNRows == {0, Height}

Min(x, y) == IF x < y THEN x ELSE y
Max(x, y) == IF x < y THEN y ELSE x
Clip(row) == Max(0, Min(Height, row))

\* The band draw.Draw paints in column x: image.Rect orders the two rows,
\* draw.Draw clips them to the image.
Column(gt, x, nanRow) ==
    LET xPos == Rat(x, Width)
        yRange == GetYRange(gt, xPos)
        r0 == IF IsFinite(yRange[1]) THEN Height - ToRow(yRange[1]) ELSE nanRow
        r1 == IF IsFinite(yRange[2]) THEN Height - ToRow(yRange[2]) ELSE nanRow
    IN  [col |-> GetInterpolatedColorFor(gt, xPos),
         y0 |-> Clip(Min(r0, r1)),
         y1 |-> Clip(Max(r0, r1))]

\* The columns of the 10 minute marks: int(ts / maxts * Width) for every
\* multiple ts of tick below maxts.
Ticks(maxts) ==
    {Trunc(Rat(k * tick * Width, maxts)) : k \in {j \in 1..(maxts \div tick) : j * tick < maxts}}

Image(gt, actions, nanRow) ==
    [columns |-> [x \in 1..Width |-> Column(gt, x - 1, nanRow)],
     ticks |-> Ticks(actions[Len(actions)].At)]

NoImage == [columns |-> <<>>, ticks |-> {}]
NoHeatmap == [status |-> "none", img |-> NoImage]

\* ---------------------------------------------------- CalculateMedian
Permutations(n) == {f \in [1..n -> 1..n] : \A i, j \in 1..n : f[i] = f[j] => i = j}

\* What sort.Slice by Speed can leave: a permutation of the actions that is
\* ascending in Speed (the sort is not stable). With a NaN speed the less
\* function is no strict weak ordering and the order is unspecified.
SortOutcomes(actions) ==
    LET n == Len(actions)
        hasNaN == \E i \in 1..n : IsNaN(actions[i].Speed)
    IN  {s \in {[i \in 1..n |-> actions[f[i]]] : f \in Permutations(n)} :
            hasNaN \/ \A i, j \in 1..n : i < j => ~RLt(s[j].Speed, s[i].Speed)}

\* The float CalculateMedian converts to int, from the sorted actions.
\* MedianSpeed taking the upper middle element for an even count too.
MedianUpper(sorted) == sorted[Len(sorted) \div 2 + 1].Speed
MedianSpeed(sorted) ==
    LET mNumber == Len(sorted) \div 2
    IN  IF Len(sorted) % 2 # 0 THEN sorted[mNumber + 1].Speed
        ELSE RDivInt(RAdd(sorted[mNumber].Speed, sorted[mNumber + 1].Speed), 2)

\* int(x) of a non-finite float is implementation-dependent: the minimum
\* int on amd64; 0 for a NaN and the maximum int for +Inf on arm64. The
\* 64-bit extremes are written as the 32-bit ones, the largest TLC holds.
NonFiniteInts == {-2147483647, 0, 2147483647}
IntOf(x) == IF IsFinite(x) THEN {Trunc(x)} ELSE NonFiniteInts

\* ------------------------------------------------------------ state
NoQuery ==
    [asked |-> FALSE, t |-> FromInt(0),
     col |-> Unblended(Named(colorBackground)),
     yRange |-> <<FromInt(0), FromInt(0)>>]

\* Positions a holder of the table queries: RenderHeatmap's x/Width, the
\* stops' own positions, the last stop's position and positions past it.
QueryPositions ==
    {Rat(k, Width) : k \in 0..(Width + 2)}
    \cup UNION {{Rat(i, m) : i \in 0..m} : m \in 1..(MaxSegments - 1)}

Init ==
    /\ file \in Files
    /\ sceneDurationMilli \in Durations
    /\ NumSegments \in 1..MaxSegments
    /\ pc = "load"
    /\ err = ""
    /\ funscript = <<>>
    /\ Funscript = <<>>
    /\ InteractiveSpeed = 0
    /\ binned = <<>>
    /\ segments = <<>>
    /\ gradient = <<>>
    /\ heatmap = NoHeatmap
    /\ query = NoQuery

\* ------------------------------------------------------------ Generate
\* len(funscript.Actions) == 0
\* NoValidActions with the check left out.
NoValidActionsNever(actions) == FALSE
NoValidActions(actions) == Len(actions) = 0

\* LoadFunscriptData and the checks of its result, up to g.Funscript = funscript.
GenerateLoad ==
    /\ pc = "load"
    /\ IF file.kind # "ok"
       THEN /\ pc' = "failed"
            /\ err' = file.kind
            /\ UNCHANGED <<funscript, Funscript>>
       ELSE LET loaded == LoadFunscriptData(file.actions, sceneDurationMilli)
            IN  /\ funscript' = loaded
                /\ IF NoValidActions(loaded)
                   THEN /\ pc' = "failed"
                        /\ err' = "no valid actions"
                        /\ UNCHANGED Funscript
                   ELSE /\ pc' = "update"
                        /\ err' = ""
                        /\ Funscript' = loaded
    /\ UNCHANGED <<file, sceneDurationMilli, NumSegments, InteractiveSpeed, binned,
                   segments, gradient, heatmap, query>>

\* g.Funscript.UpdateIntensityAndSpeed()
GenerateUpdate ==
    /\ pc = "update"
    /\ Funscript' = UpdateIntensityAndSpeed(Funscript)
    /\ pc' = "bin"
    /\ UNCHANGED <<file, sceneDurationMilli, NumSegments, err, funscript,
                   InteractiveSpeed, binned, segments, gradient, heatmap, query>>

\* RenderHeatmap, getGradientTable: the binning loop.
RenderBin ==
    /\ pc = "bin"
    /\ binned' = Binning(Funscript, NumSegments)
    /\ pc' = "backfill"
    /\ UNCHANGED <<file, sceneDurationMilli, NumSegments, err, funscript, Funscript,
                   InteractiveSpeed, segments, gradient, heatmap, query>>

\* RenderHeatmap, getGradientTable: the backfill loop.
RenderBackfill ==
    /\ pc = "backfill"
    /\ segments' = Backfill(binned)
    /\ pc' = "gradient"
    /\ UNCHANGED <<file, sceneDurationMilli, NumSegments, err, funscript, Funscript,
                   InteractiveSpeed, binned, gradient, heatmap, query>>

\* RenderHeatmap, getGradientTable: the gradient loop and the return.
RenderGradient ==
    /\ pc = "gradient"
    /\ gradient' = Gradient(segments)
    /\ pc' = "raster"
    /\ UNCHANGED <<file, sceneDurationMilli, NumSegments, err, funscript, Funscript,
                   InteractiveSpeed, binned, segments, heatmap, query>>

\* RenderHeatmap: the columns, the marks, os.Create and png.Encode.
RenderRaster ==
    /\ pc = "raster"
    /\ \E nanRow \in NaNRows, outcome \in {"written", "create failed", "encode failed"} :
          LET img == Image(gradient, Funscript, nanRow)
          IN  /\ heatmap' = CASE outcome = "written" -> [status |-> "written", img |-> img]
                              [] outcome = "create failed" -> heatmap
                              [] OTHER -> [status |-> "partial", img |-> NoImage]
              /\ pc' = IF outcome = "written" THEN "median" ELSE "failed"
              /\ err' = IF outcome = "written" THEN "" ELSE outcome
    /\ UNCHANGED <<file, sceneDurationMilli, NumSegments, funscript, Funscript,
                   InteractiveSpeed, binned, segments, gradient, query>>

\* g.InteractiveSpeed = g.Funscript.CalculateMedian()
GenerateMedian ==
    /\ pc = "median"
    /\ \E sorted \in SortOutcomes(Funscript) :
          /\ Funscript' = sorted
          /\ InteractiveSpeed' \in IntOf(MedianSpeed(sorted))
    /\ pc' = "done"
    /\ UNCHANGED <<file, sceneDurationMilli, NumSegments, err, funscript, binned,
                   segments, gradient, heatmap, query>>

\* A holder of the table getGradientTable returned asks for the colour and
\* the yRange at t (RenderHeatmap does, for every column).
Query ==
    /\ pc = "raster"
    /\ ~query.asked
    /\ \E t \in QueryPositions :
          query' = [asked |-> TRUE, t |-> t,
                    col |-> GetInterpolatedColorFor(gradient, t),
                    yRange |-> GetYRange(gradient, t)]
    /\ UNCHANGED <<file, sceneDurationMilli, NumSegments, pc, err, funscript, Funscript,
                   InteractiveSpeed, binned, segments, gradient, heatmap>>

Next ==
    \/ GenerateLoad
    \/ GenerateUpdate
    \/ RenderBin
    \/ RenderBackfill
    \/ RenderGradient
    \/ RenderRaster
    \/ GenerateMedian

\* One run of Generate.
Spec == Init /\ [][Next]_vars

NextQuery ==
    \/ GenerateLoad
    \/ GenerateUpdate
    \/ RenderBin
    \/ RenderBackfill
    \/ RenderGradient
    \/ Query

\* Generate up to the gradient table, and the queries of that table.
SpecQuery == Init /\ [][NextQuery]_vars

\* ------------------------------------------------------------ claims
SortedByAt(a) == \A i, j \in 1..Len(a) : i < j => a[i].At <= a[j].At

\* The actions of raw at time t, in raw's order.
AtTime(raw, t) == SelectSeq(raw, LAMBDA a : a.At = t)

RECURSIVE InTimeOrder(_, _)
InTimeOrder(raw, ts) ==
    IF ts = {} THEN <<>>
    ELSE LET m == CHOOSE t \in ts : \A u \in ts : t <= u
         IN  AtTime(raw, m) \o InTimeOrder(raw, ts \ {m})

\* C1: what LoadFunscriptData returns is the raw list's actions with
\* 0 <= at < sceneDurationMilli, each exactly once, in ascending at, those
\* of equal at in their order in the raw list.
C1_LoadIsStableSortedFilter ==
    (pc # "load" /\ file.kind = "ok") =>
        /\ funscript = InTimeOrder(file.actions,
                                   {t \in Times : 0 <= t /\ t < sceneDurationMilli})
        /\ SortedByAt(funscript)

\* An unsorted raw list with an action at the scene's end and two actions of
\* one valid time and different positions has been loaded.
C1_Witness ==
    /\ pc = "update"
    /\ Len(file.actions) = 3
    /\ file.actions[1].At = sceneDurationMilli
    /\ file.actions[2].At = 10
    /\ file.actions[3].At = 10
    /\ file.actions[2].Pos # file.actions[3].Pos
    /\ Len(funscript) = 2

\* C2: with the actions field missing, or no action with 0 <= at < duration
\* in it, Generate has failed with an error once it has run, and nothing of
\* the generator or of the heatmap has changed.
C2_FailsWithoutValidActions ==
    (/\ pc # "load"
     /\ \/ file.kind = "missing"
        \/ /\ file.kind = "ok"
           /\ \A i \in 1..Len(file.actions) :
                 file.actions[i].At < 0 \/ file.actions[i].At >= sceneDurationMilli)
    => /\ pc = "failed"
       /\ err # ""
       /\ Funscript = <<>>
       /\ InteractiveSpeed = 0
       /\ binned = <<>>
       /\ gradient = <<>>
       /\ heatmap = NoHeatmap

\* Generate has failed on a list that was not empty and was trimmed to nothing.
C2_Witness ==
    /\ pc = "failed"
    /\ file.kind = "ok"
    /\ Len(file.actions) = 2
    /\ err = "no valid actions"

\* The speed of the i-th loaded action: 0 for the first, else |dp|/dt*1000.
SpeedAt(i) ==
    IF i = 1 THEN FromInt(0)
    ELSE Rat(Abs(funscript[i].Pos - funscript[i - 1].Pos) * 1000,
             funscript[i].At - funscript[i - 1].At)

AllSpeedsFinite == \A i \in 2..Len(funscript) : funscript[i - 1].At < funscript[i].At

\* The speed at 0-based position k of the speeds in ascending order.
SpeedAtRank(k) ==
    LET n == Len(funscript)
        v == CHOOSE i \in 1..n :
                /\ Cardinality({j \in 1..n : RLt(SpeedAt(j), SpeedAt(i))}) <= k
                /\ Cardinality({j \in 1..n : RLe(SpeedAt(j), SpeedAt(i))}) > k
    IN  SpeedAt(v)

\* C3: with finite speeds, InteractiveSpeed is the truncated median of all
\* the actions' speeds, the first action's speed 0 included: the middle one
\* for an odd count, the average of the two middle ones for an even count.
C3_MedianOfAllSpeeds ==
    (pc = "done" /\ AllSpeedsFinite) =>
        LET n == Len(funscript)
        IN  IF n % 2 = 1
            THEN InteractiveSpeed = Trunc(SpeedAtRank(n \div 2))
            ELSE InteractiveSpeed =
                    Trunc(RDivInt(RAdd(SpeedAtRank(n \div 2 - 1), SpeedAtRank(n \div 2)), 2))

\* An even count whose two middle speeds differ and whose average is cut.
C3_Witness ==
    /\ pc = "done"
    /\ AllSpeedsFinite
    /\ Len(funscript) = 2
    /\ SpeedAt(2) = Rat(125, 2)
    /\ InteractiveSpeed = 31

\* C4: after a successful Generate, CalculateMedian has left the order of
\* Funscript.Actions as it was, sorted non-decreasingly by at.
C4_ActionsStillSortedByAt ==
    pc = "done" => SortedByAt(Funscript)

\* C5: a query at or past the last stop's position returns the last stop's
\* colour and the last stop's yRange.
C5_AtOrPastLastStop ==
    (query.asked /\ Len(gradient) >= 2 /\ RLe(gradient[Len(gradient)].Pos, query.t)) =>
        /\ query.col = Unblended(gradient[Len(gradient)].Col)
        /\ query.yRange = gradient[Len(gradient)].YRange

\* The non-empty bins before bin j (1-based) after binning.
NonEmptyBefore(j) == {k \in 1..(j - 1) : binned[k].count > 0}
Nearest(j) == CHOOSE k \in NonEmptyBefore(j) : \A m \in NonEmptyBefore(j) : m <= k

C7_StrictlyIncreasingAt ==
    pc = "bin" =>
        \A i \in 2..Len(Funscript) :
            /\ Funscript[i - 1].At < Funscript[i].At
            /\ RLe(FromInt(0), Funscript[i].Slope) /\ RLe(Funscript[i].Slope, FromInt(20))
            /\ IsFinite(Funscript[i].Speed)
            /\ RLe(FromInt(0), Funscript[i].Speed)

\* floor(at / (maxts+1) * numSegments), clamped to numSegments-1
BinOf(at) ==
    LET maxts == funscript[Len(funscript)].At
        b == (at * NumSegments) \div (maxts + 1)
    IN  IF b > NumSegments - 1 THEN NumSegments - 1 ELSE b

ActionsInBin(b) == {k \in 1..Len(funscript) : BinOf(funscript[k].At) = b}

RECURSIVE SumOver(_, _)
SumOver(f, S) ==
    IF S = {} THEN 0
    ELSE LET x == CHOOSE y \in S : TRUE IN f[x] + SumOver(f, S \ {x})

\* C8: right after binning, every action is in the one bin of its index,
\* which lies in 0..numSegments-1: each bin's count is the number of its
\* actions and its intensity the sum of their intensities, so the counts sum
\* to the number of actions and the intensities to the actions' total.
C8_BinningPartitionsActions ==
    pc = "backfill" =>
        LET n == Len(Funscript)
            intensity == [k \in 1..n |-> Funscript[k].Intensity]
        IN  /\ Len(binned) = NumSegments
            /\ \A k \in 1..n : BinOf(funscript[k].At) \in 0..(NumSegments - 1)
            /\ \A b \in 0..(NumSegments - 1) :
                  /\ binned[b + 1].count = Cardinality(ActionsInBin(b))
                  /\ binned[b + 1].intensity = SumOver(intensity, ActionsInBin(b))
            /\ SumOver([b \in 1..NumSegments |-> binned[b].count], 1..NumSegments) = n
            /\ SumOver([b \in 1..NumSegments |-> binned[b].intensity], 1..NumSegments)
                  = SumOver(intensity, 1..n)

\* Two actions share a bin and a third is in another one.
C8_Witness ==
    /\ pc = "backfill"
    /\ Len(Funscript) = 3
    /\ NumSegments = 3
    /\ binned[1].count = 2
    /\ binned[1].intensity > 0
    /\ binned[3].count = 1
    /\ binned[3].intensity > 0

\* The 0-based indices i of the pairs (gt[i], gt[i+1]) that enclose t.
EnclosingPairs(gt, t) == {i \in 0..(Len(gt) - 2) : Encloses(gt[i + 1], gt[i + 2], t)}

StopsSpanUnitInterval(gt) ==
    /\ Len(gt) = NumSegments
    /\ \A i \in 1..Len(gt) : gt[i].Pos = Rat(i - 1, Len(gt) - 1)
    /\ \A i \in 1..(Len(gt) - 1) : RLt(gt[i].Pos, gt[i + 1].Pos)
    /\ gt[1].Pos = FromInt(0)
    /\ gt[Len(gt)].Pos = FromInt(1)

InUnitInterval(t) == RLe(FromInt(0), t) /\ RLt(t, FromInt(1))

\* C9: a table of two or more stops has numSegments stops at the strictly
\* increasing positions i/(numSegments-1) from 0 to 1, and exactly one pair
\* of consecutive stops encloses each t in [0, 1).
C9_ExactlyOneEnclosingPair ==
    (Len(gradient) >= 2) =>
        /\ StopsSpanUnitInterval(gradient)
        /\ \A t \in QueryPositions :
              InUnitInterval(t) => Cardinality(EnclosingPairs(gradient, t)) = 1

\* C9 as amended: ... and each t in [0, 1) is enclosed by exactly one pair of
\* consecutive stops, unless t is the position of a stop other than the
\* first and the last: then by exactly the two pairs that share that stop,
\* and the queries use the first of them. (The table is examined in the
\* state before a query, which every table is in; a query's answer in the
\* state after it.)
C9_OnePairOrTwoAtAStop ==
    /\ (Len(gradient) >= 2 /\ ~query.asked) =>
          /\ StopsSpanUnitInterval(gradient)
          /\ \A t \in QueryPositions :
                InUnitInterval(t) =>
                   LET pairs == EnclosingPairs(gradient, t)
                       atStop == {i \in 1..(Len(gradient) - 2) : gradient[i + 1].Pos = t}
                   IN  /\ atStop = {} => Cardinality(pairs) = 1
                       /\ \A i \in atStop : pairs = {i - 1, i}
                       /\ FirstEnclosing(gradient, t, 0) \in pairs
                       /\ \A i \in pairs : FirstEnclosing(gradient, t, 0) <= i
    /\ (Len(gradient) >= 2 /\ query.asked /\ InUnitInterval(query.t)) =>
          LET first == FirstEnclosing(gradient, query.t, 0)
          IN  /\ first \in EnclosingPairs(gradient, query.t)
              /\ query.yRange = gradient[first + 1].YRange
              /\ query.col = BlendHclClamped(gradient[first + 1].Col, gradient[first + 2].Col,
                                RDiv(RSub(query.t, gradient[first + 1].Pos),
                                     RSub(gradient[first + 2].Pos, gradient[first + 1].Pos)))

\* A query at the middle stop of three, which two pairs enclose.
C9_Witness ==
    /\ query.asked
    /\ Len(gradient) = 3
    /\ query.t = Rat(1, 2)
    /\ EnclosingPairs(gradient, query.t) = {0, 1}
    /\ gradient[1].YRange # gradient[2].YRange
    /\ query.yRange = gradient[1].YRange

\* C10: both halves of the sorted window are non-empty for every action, so
\* every bin that received an action has a yRange of two means with
\* 0 <= bottom <= top <= 100, and the band painted in each column lies
\* within rows 0..Height.
C10_YRangeWellDefined ==
    /\ \A j \in 1..Len(binned) :
          binned[j].count > 0 =>
             /\ IsFinite(binned[j].yRange[1]) /\ IsFinite(binned[j].yRange[2])
             /\ RLe(FromInt(0), binned[j].yRange[2])
             /\ RLe(binned[j].yRange[2], binned[j].yRange[1])
             /\ RLe(binned[j].yRange[1], FromInt(100))
    /\ \A x \in 1..Len(heatmap.img.columns) :
          /\ 0 <= heatmap.img.columns[x].y0
          /\ heatmap.img.columns[x].y0 <= heatmap.img.columns[x].y1
          /\ heatmap.img.columns[x].y1 <= Height
=============================================================================
